---------------------------- MODULE Spec2Model ----------------------------
(***************************************************************************)
(* Prompt store: the ownership-scoped repository (MySQLPromptRepository)   *)
(* and the transactional service facade (PromptService).                   *)
(*                                                                         *)
(* Storage is the three tables the statements address: prompts, tags and   *)
(* prompt_tags.  Every handler is a function from the committed storage    *)
(* and its arguments to the storage, the error and the value the caller    *)
(* gets; it runs its storage statements one after the other on a working   *)
(* copy (the open transaction), and an exception skips the statements      *)
(* that follow it.                                                         *)
(*                                                                         *)
(* Strings that the code takes apart (tags, which get_prompt joins with    *)
(* GROUP_CONCAT and splits on ",") are sequences of one-character strings. *)
(***************************************************************************)
EXTENDS Integers, Sequences, FiniteSets, TLC

VARIABLES prompts,      \* rows of table prompts
          tags,         \* rows of table tags: the global vocabulary
          prompt_tags,  \* rows of the link table prompt_tags
          next_id,      \* the next AUTO_INCREMENT id / generated guid
          pc,           \* "idle", "called" (a call is in flight) or "returned"
          call,         \* the service call in flight or just answered
          reply,        \* its response, and the storage before the call
          txn           \* per session, the write transaction run statement by statement

vars == <<prompts, tags, prompt_tags, next_id, pc, call, reply, txn>>

---------------------------------------------------------------------------
(* Bounds of the model *)

\* prompts ever created in one behaviour
MaxPrompts == 1
\* longest tag list a create or update input carries
MaxTagList == 2

(* Values the inputs are drawn from *)
NULL == "NULL"            \* SQL NULL / Python None of a string-valued place
OK == "ok"                \* no exception
Usernames == {"alice", "bob"}
Scopes == {NULL} \cup Usernames      \* user: Optional[User], by username
Contents == {"c1", "c2"}
Names == {"n1", "n2"}
TagA == <<"a">>
TagAB == <<"a", ",", "b">>
TagB == <<"b">>
TagAlphabet == {TagA, TagAB}

\* Optional[List[str]]: None, or a list
None == [some |-> FALSE]
Some(v) == [some |-> TRUE, v |-> v]

RECURSIVE ListsUpTo(_, _)
ListsUpTo(S, n) ==
  IF n = 0 THEN {<<>>}
  ELSE LET shorter == ListsUpTo(S, n - 1)
       IN shorter \cup {Append(l, x) : l \in {k \in shorter : Len(k) = n - 1}, x \in S}

Range(s) == {s[i] : i \in 1..Len(s)}
Count(s, x) == Cardinality({i \in 1..Len(s) : s[i] = x})

\* core.make_guid(): a fresh identifier; the k-th one generated
make_guid(k) == <<"guid", k>>
Guids == {make_guid(k) : k \in 0..MaxPrompts}

---------------------------------------------------------------------------
(* The exceptions *)

DataValidationError == "DataValidationError"
UnauthorizedError == "UnauthorizedError"
RecordNotFoundError == "RecordNotFoundError"
ConstraintViolationError == "ConstraintViolationError"
\* the base class, raised by the service for every failure of another kind
PromptException == "PromptException"
\* not PromptExceptions: Python's and the driver's
TypeError == "TypeError"
IntegrityError == "IntegrityError"
OperationalError == "OperationalError"

\* except PromptException as known_exc
IsPromptException(e) ==
  e \in {PromptException, DataValidationError, UnauthorizedError,
         RecordNotFoundError, ConstraintViolationError}

---------------------------------------------------------------------------
(* The database context: the working copy of the tables, the exception in  *)
(* flight, and the storage calls made so far.  fault is the number of the  *)
(* storage call at which the driver raises (0: at none).                   *)

Context(db, fault) ==
  [prompts |-> db.prompts, tags |-> db.tags, prompt_tags |-> db.prompt_tags,
   next_id |-> db.next_id, err |-> OK, log |-> <<>>, fault |-> fault,
   row |-> {}, ret |-> NULL]

Raise(cx, e) == [cx EXCEPT !.err = e]
Called(cx, stmt) == [cx EXCEPT !.log = Append(@, stmt)]
Faulty(cx) == Len(cx.log) + 1 = cx.fault

\* a scope clause that lets a user see the public prompts as well
InScopeOrPublic(p, user) ==
  IF user # NULL THEN p.author = user \/ p.author = NULL ELSE p.author = NULL

\* WHERE ... AND prompts.author = %s  /  AND prompts.author IS NULL
InScope(p, user) ==
  IF user # NULL THEN p.author = user ELSE p.author = NULL

---------------------------------------------------------------------------
(* The storage statements, one operator per db.cursor.execute.  A statement *)
(* is skipped when an exception is in flight, and raises the driver's error *)
(* when it is the call the fault falls on.                                  *)

\* INSERT INTO prompts (guid, content, display_name, author) VALUES (...)
InsertPrompt(cx, guid, content, display_name, author) ==
  IF cx.err # OK THEN cx
  ELSE IF Faulty(cx) THEN Raise(Called(cx, "INSERT prompts"), OperationalError)
  ELSE [Called(cx, "INSERT prompts") EXCEPT
          !.prompts = @ \cup {[id |-> cx.next_id, guid |-> guid, content |-> content,
                               display_name |-> display_name, author |-> author]},
          !.next_id = @ + 1]

\* UPDATE prompts SET content = %s, display_name = %s WHERE guid = %s
UpdateAllFields(cx, guid, content, display_name) ==
  IF cx.err # OK THEN cx
  ELSE IF Faulty(cx) THEN Raise(Called(cx, "UPDATE prompts"), OperationalError)
  ELSE [Called(cx, "UPDATE prompts") EXCEPT
          !.prompts = {IF p.guid = guid
                       THEN [p EXCEPT !.content = content,
                                      !.display_name = display_name]
                       ELSE p : p \in @}]

\* UPDATE prompts SET <the fields given> WHERE guid = %s
UpdatePromptFields(cx, guid, content, display_name) ==
  IF cx.err # OK THEN cx
  ELSE IF Faulty(cx) THEN Raise(Called(cx, "UPDATE prompts"), OperationalError)
  ELSE [Called(cx, "UPDATE prompts") EXCEPT
          !.prompts = {IF p.guid = guid
                       THEN [p EXCEPT
                               !.content = IF content # NULL THEN content ELSE @,
                               !.display_name =
                                  IF display_name # NULL THEN display_name ELSE @]
                       ELSE p : p \in @}]

\* SELECT author FROM prompts WHERE guid = %s
SelectAuthor(cx, guid) ==
  IF cx.err # OK THEN cx
  ELSE IF Faulty(cx) THEN Raise(Called(cx, "SELECT author"), OperationalError)
  ELSE [Called(cx, "SELECT author") EXCEPT
          !.row = {p.author : p \in {q \in cx.prompts : q.guid = guid}}]

\* DELETE FROM prompts WHERE guid = %s
DeletePromptRow(cx, guid) ==
  IF cx.err # OK THEN cx
  ELSE IF Faulty(cx) THEN Raise(Called(cx, "DELETE prompts"), OperationalError)
  ELSE [Called(cx, "DELETE prompts") EXCEPT
          !.prompts = {p \in @ : p.guid # guid}]

\* INSERT INTO tags (tag) VALUES (%s) AS new ON DUPLICATE KEY UPDATE tag = new.tag
UpsertTag(cx, tag) ==
  IF cx.err # OK THEN cx
  ELSE IF Faulty(cx) THEN Raise(Called(cx, "INSERT tags"), OperationalError)
  ELSE [Called(cx, "INSERT tags") EXCEPT !.tags = @ \cup {tag}]

\* the rows of the SELECT without its author clause
LinkRowsAnyScope(cx, guid, tag, user) ==
  {<<p.id, t>> : p \in {q \in cx.prompts : q.guid = guid},
                 t \in {x \in cx.tags : x = tag}}

\* the rows  SELECT prompts.id, tags.id FROM prompts, tags
\*           WHERE prompts.guid = %s AND tags.tag = %s AND <author clause>
LinkRows(cx, guid, tag, user) ==
  {<<p.id, t>> : p \in {q \in cx.prompts : q.guid = guid /\ InScope(q, user)},
                 t \in {x \in cx.tags : x = tag}}

\* the uniqueness constraint of prompt_tags on the (prompt, tag) pair: the rows
\* a plain INSERT may add
UniqueLinks(rows, new) == rows \cap new = {}

\* INSERT INTO prompt_tags (prompt_id, tag_id) SELECT ...
InsertLink(cx, guid, tag, user) ==
  IF cx.err # OK THEN cx
  ELSE IF Faulty(cx) THEN Raise(Called(cx, "INSERT prompt_tags"), OperationalError)
  ELSE LET new == LinkRows(cx, guid, tag, user)
           c == Called(cx, "INSERT prompt_tags")
       IN IF UniqueLinks(cx.prompt_tags, new)
          THEN [c EXCEPT !.prompt_tags = @ \cup new]
          ELSE Raise(c, IntegrityError)

\* a link delete that also drops the tag from the vocabulary
DeleteLinkAndTag(cx, guid, tag, user) ==
  IF cx.err # OK THEN cx
  ELSE IF Faulty(cx) THEN Raise(Called(cx, "DELETE prompt_tags"), OperationalError)
  ELSE [Called(cx, "DELETE prompt_tags") EXCEPT
          !.prompt_tags =
             {l \in @ : ~ (/\ l[2] = tag
                           /\ \E p \in cx.prompts :
                                p.id = l[1] /\ p.guid = guid /\ InScope(p, user))},
          !.tags = @ \ {tag}]

\* a link delete that takes every tag of the prompt
DeleteLinkAnyTag(cx, guid, tag, user) ==
  IF cx.err # OK THEN cx
  ELSE IF Faulty(cx) THEN Raise(Called(cx, "DELETE prompt_tags"), OperationalError)
  ELSE [Called(cx, "DELETE prompt_tags") EXCEPT
          !.prompt_tags =
             {l \in @ : ~ \E p \in cx.prompts :
                            p.id = l[1] /\ p.guid = guid /\ InScope(p, user)}]

\* DELETE prompt_tags FROM prompt_tags INNER JOIN prompts ... INNER JOIN tags ...
\*  WHERE prompts.guid = %s AND tags.tag = %s AND <author clause>
DeleteLink(cx, guid, tag, user) ==
  IF cx.err # OK THEN cx
  ELSE IF Faulty(cx) THEN Raise(Called(cx, "DELETE prompt_tags"), OperationalError)
  ELSE [Called(cx, "DELETE prompt_tags") EXCEPT
          !.prompt_tags =
             {l \in @ : ~ (/\ l[2] = tag
                           /\ l[2] \in cx.tags
                           /\ \E p \in cx.prompts :
                                p.id = l[1] /\ p.guid = guid /\ InScope(p, user))}]

\* DELETE prompt_tags FROM prompt_tags INNER JOIN prompts ON prompt_id = prompts.id
\*  WHERE prompts.guid = %s AND <author clause>
remove_all_tags_from_prompt(cx, guid, user) ==
  IF cx.err # OK THEN cx
  ELSE IF Faulty(cx) THEN Raise(Called(cx, "DELETE prompt_tags"), OperationalError)
  ELSE [Called(cx, "DELETE prompt_tags") EXCEPT
          !.prompt_tags =
             {l \in @ : ~ \E p \in cx.prompts :
                            p.id = l[1] /\ p.guid = guid /\ InScope(p, user)}]

---------------------------------------------------------------------------
(* MySQLPromptRepository *)

\* an ownership check that raises RecordNotFoundError when there is no row
check_prompt_ownership_or_not_found(cx, guid, user) ==
  LET c == SelectAuthor(cx, guid)
  IN IF c.err # OK THEN c
     ELSE IF c.row = {} THEN Raise(c, RecordNotFoundError)
     ELSE IF (CHOOSE a \in c.row : TRUE) # user THEN Raise(c, UnauthorizedError)
     ELSE c

\* an ownership check that only looks for the row
check_prompt_exists(cx, guid, user) ==
  LET c == SelectAuthor(cx, guid)
  IN IF c.err # OK THEN c
     ELSE IF c.row = {} THEN Raise(c, TypeError)
     ELSE c

\* fetchone()['author'] of no row is a TypeError; the author is compared with
\* the caller's username, or with None
check_prompt_ownership(cx, guid, user) ==
  LET c == SelectAuthor(cx, guid)
  IN IF c.err # OK THEN c
     ELSE IF c.row = {} THEN Raise(c, TypeError)
     ELSE IF (CHOOSE a \in c.row : TRUE) # user THEN Raise(c, UnauthorizedError)
     ELSE c

add_tag_to_prompt(cx, guid, tag, user) ==
  InsertLink(UpsertTag(cx, tag), guid, tag, user)

remove_tag_from_prompt(cx, guid, tag, user) ==
  DeleteLink(cx, guid, tag, user)

\* for tag in tags: self.add_tag_to_prompt(guid, tag, user)
RECURSIVE AddEachTag(_, _, _, _)
AddEachTag(cx, guid, taglist, user) ==
  IF taglist = <<>> THEN cx
  ELSE AddEachTag(add_tag_to_prompt(cx, guid, Head(taglist), user),
                  guid, Tail(taglist), user)

\* a tag replacement that commits once the old links are removed
update_tags_autocommit(cx, guid, tagsopt, user) ==
  LET c1 == check_prompt_ownership(cx, guid, user)
      c == remove_all_tags_from_prompt(c1, guid, user)
      c2 == IF c.err # OK THEN c
            ELSE IF Faulty(c) THEN Raise(Called(c, "COMMIT"), OperationalError)
            ELSE Called(c, "COMMIT")
  IN IF c2.err # OK THEN c2
     ELSE IF ~ tagsopt.some THEN Raise(c2, TypeError)
     ELSE AddEachTag(c2, guid, tagsopt.v, user)

\* tags: Optional[List[str]]; iterating None is a TypeError
update_tags(cx, guid, tagsopt, user) ==
  LET c1 == check_prompt_ownership(cx, guid, user)
      c2 == remove_all_tags_from_prompt(c1, guid, user)
  IN IF c2.err # OK THEN c2
     ELSE IF ~ tagsopt.some THEN Raise(c2, TypeError)
     ELSE AddEachTag(c2, guid, tagsopt.v, user)

\* a creation that stores the author given in the input, when there is one
create_prompt_as_given(cx, prompt, author) ==
  LET prompt_guid == make_guid(cx.next_id)
      stored == IF prompt.author # NULL THEN prompt.author ELSE author
      c1 == InsertPrompt(cx, prompt_guid, prompt.content, prompt.display_name, stored)
      c2 == update_tags(c1, prompt_guid, prompt.tags, stored)
  IN IF c2.err # OK THEN c2 ELSE [c2 EXCEPT !.ret = prompt_guid]

\* the author stored is author.username, or None: never prompt.author
create_prompt(cx, prompt, author) ==
  LET prompt_guid == make_guid(cx.next_id)
      c1 == InsertPrompt(cx, prompt_guid, prompt.content, prompt.display_name, author)
      c2 == update_tags(c1, prompt_guid, prompt.tags, author)
  IN IF c2.err # OK THEN c2 ELSE [c2 EXCEPT !.ret = prompt_guid]

\* setting_a_field: some field other than tags is not None
update_prompt(cx, guid, prompt, user) ==
  LET setting_a_field == prompt.content # NULL \/ prompt.display_name # NULL
  IN IF cx.err # OK THEN cx
     ELSE IF ~ setting_a_field /\ ~ prompt.tags.some
          THEN Raise(cx, DataValidationError)
     ELSE LET c1 == IF setting_a_field
                    THEN UpdatePromptFields(cx, guid, prompt.content, prompt.display_name)
                    ELSE cx
          IN IF prompt.tags.some THEN update_tags(c1, guid, prompt.tags, user) ELSE c1

delete_prompt(cx, guid, user) ==
  LET c1 == check_prompt_ownership(cx, guid, user)
      c2 == DeletePromptRow(c1, guid)
  IN remove_all_tags_from_prompt(c2, guid, user)

---------------------------------------------------------------------------
(* Reading a prompt back: the aggregation of its tags and its parsing *)

RECURSIVE SetToSeq(_)
SetToSeq(S) ==
  IF S = {} THEN <<>>
  ELSE LET x == CHOOSE y \in S : TRUE IN <<x>> \o SetToSeq(S \ {x})

RECURSIVE Join(_)
Join(strs) ==
  IF Len(strs) = 0 THEN <<>>
  ELSE IF Len(strs) = 1 THEN strs[1]
  ELSE strs[1] \o <<",">> \o Join(Tail(strs))

\* GROUP_CONCAT(tags.tag): the values joined with ",", NULL when there is none.
\* The order of the values is the engine's; the properties stated below do not
\* depend on it.
GROUP_CONCAT(values) ==
  IF values = {} THEN None ELSE Some(Join(SetToSeq(values)))

\* str.split(',')
RECURSIVE split(_)
split(s) ==
  IF \E i \in 1..Len(s) : s[i] = ","
  THEN LET i == CHOOSE k \in 1..Len(s) : s[k] = "," /\ \A j \in 1..(k - 1) : s[j] # ","
       IN <<SubSeq(s, 1, i - 1)>> \o split(SubSeq(s, i + 1, Len(s)))
  ELSE <<s>>

\* the row of the SELECT ... LEFT JOIN prompt_tags LEFT JOIN tags ... GROUP BY
\* prompts.id for prompt p, aggregating the tags of the links in `links`
JoinedRow(cx, p, links) ==
  [id |-> p.id, guid |-> p.guid, content |-> p.content,
   display_name |-> p.display_name, author |-> p.author,
   tags |-> GROUP_CONCAT({l[2] : l \in {k \in links : k[1] = p.id /\ k[2] \in cx.tags}})]

\* result["tags"].split(',') if result["tags"] else []
make_result_dict(result) ==
  [id |-> result.id, content |-> result.content,
   display_name |-> result.display_name, author |-> result.author,
   tags |-> IF result.tags.some /\ result.tags.v # <<>>
            THEN split(result.tags.v) ELSE <<>>,
   guid |-> result.guid]

\* Prompt(**result_dict): the model has no author field, and drops it
Prompt(d) ==
  [id |-> d.id, guid |-> d.guid, content |-> d.content,
   display_name |-> d.display_name, tags |-> d.tags]

\* a get that tells a prompt of another scope from a missing one
get_prompt_or_forbid(cx, guid, user) ==
  IF cx.err # OK THEN cx
  ELSE IF Faulty(cx) THEN Raise(Called(cx, "SELECT prompts"), OperationalError)
  ELSE LET c == Called(cx, "SELECT prompts")
           rows == {p \in cx.prompts : p.guid = guid}
       IN IF rows = {} THEN Raise(c, RecordNotFoundError)
          ELSE IF \A p \in rows : ~ InScope(p, user) THEN Raise(c, UnauthorizedError)
          ELSE [c EXCEPT !.ret =
                  Prompt(make_result_dict(
                     JoinedRow(cx, CHOOSE p \in rows : TRUE, cx.prompt_tags)))]

get_prompt(cx, guid, user) ==
  IF cx.err # OK THEN cx
  ELSE IF Faulty(cx) THEN Raise(Called(cx, "SELECT prompts"), OperationalError)
  ELSE LET c == Called(cx, "SELECT prompts")
           rows == {p \in cx.prompts : p.guid = guid /\ InScope(p, user)}
       IN IF rows = {} THEN Raise(c, RecordNotFoundError)
          ELSE [c EXCEPT !.ret =
                  Prompt(make_result_dict(
                     JoinedRow(cx, CHOOSE p \in rows : TRUE, cx.prompt_tags)))]

\* fetchone() of a SELECT with no ORDER BY: the row the engine puts first,
\* which may be any of the rows -- the one with id `first` when it is among them
fetchone(rows, first) ==
  IF \E p \in rows : p.id = first
  THEN CHOOSE p \in rows : p.id = first
  ELSE CHOOSE p \in rows : TRUE

\* a lookup by name that leaves out the author clause
get_prompt_by_name_any_scope(cx, name, user, first) ==
  IF cx.err # OK THEN cx
  ELSE IF Faulty(cx) THEN Raise(Called(cx, "SELECT prompts"), OperationalError)
  ELSE LET c == Called(cx, "SELECT prompts")
           rows == {p \in cx.prompts : p.display_name = name}
       IN IF rows = {} THEN Raise(c, RecordNotFoundError)
          ELSE [c EXCEPT !.ret =
                  Prompt(make_result_dict(
                     JoinedRow(cx, fetchone(rows, first), cx.prompt_tags)))]

get_prompt_by_name(cx, name, user, first) ==
  IF cx.err # OK THEN cx
  ELSE IF Faulty(cx) THEN Raise(Called(cx, "SELECT prompts"), OperationalError)
  ELSE LET c == Called(cx, "SELECT prompts")
           rows == {p \in cx.prompts : p.display_name = name /\ InScope(p, user)}
       IN IF rows = {} THEN Raise(c, RecordNotFoundError)
          ELSE [c EXCEPT !.ret =
                  Prompt(make_result_dict(
                     JoinedRow(cx, fetchone(rows, first), cx.prompt_tags)))]

\* the rows in no stated order: the set of the prompts returned
list_prompts(cx, user) ==
  IF cx.err # OK THEN cx
  ELSE IF Faulty(cx) THEN Raise(Called(cx, "SELECT prompts"), OperationalError)
  ELSE [Called(cx, "SELECT prompts") EXCEPT !.ret =
          {Prompt(make_result_dict(JoinedRow(cx, p, cx.prompt_tags))) :
             p \in {q \in cx.prompts : InScope(q, user)}}]

\* the SELECT of list_prompts_by_tags without GROUP BY: a row for every
\* matching link
list_prompts_by_tags_ungrouped(cx, tags_list, user) ==
  IF cx.err # OK THEN cx
  ELSE IF Faulty(cx) \/ tags_list = <<>>
       THEN Raise(Called(cx, "SELECT prompts"), OperationalError)
  ELSE LET matching == {l \in cx.prompt_tags : l[2] \in Range(tags_list)}
           scoped == {q \in cx.prompts : InScope(q, user)}
       IN [Called(cx, "SELECT prompts") EXCEPT !.ret =
             {Prompt(make_result_dict(JoinedRow(cx, x[1], {x[2]}))) :
                x \in {y \in scoped \X matching : y[2][1] = y[1].id}}]

\* a listing by tags that joins every link of the prompts it selects
list_prompts_by_tags_all_links(cx, tags_list, user) ==
  IF cx.err # OK THEN cx
  ELSE IF Faulty(cx) \/ tags_list = <<>>
       THEN Raise(Called(cx, "SELECT prompts"), OperationalError)
  ELSE LET matching == {l \in cx.prompt_tags : l[2] \in Range(tags_list)}
       IN [Called(cx, "SELECT prompts") EXCEPT !.ret =
             {Prompt(make_result_dict(JoinedRow(cx, p, cx.prompt_tags))) :
                p \in {q \in cx.prompts :
                         InScope(q, user) /\ \E l \in matching : l[1] = q.id}}]

\* WHERE tags.tag IN (<tags_list>) AND <author clause> GROUP BY prompts.id: only
\* the links whose tag is in the list are joined.  IN () of an empty list is a
\* syntax error of the statement.
list_prompts_by_tags(cx, tags_list, user) ==
  IF cx.err # OK THEN cx
  ELSE IF Faulty(cx) \/ tags_list = <<>>
       THEN Raise(Called(cx, "SELECT prompts"), OperationalError)
  ELSE LET matching == {l \in cx.prompt_tags : l[2] \in Range(tags_list)}
       IN [Called(cx, "SELECT prompts") EXCEPT !.ret =
             {Prompt(make_result_dict(JoinedRow(cx, p, matching))) :
                p \in {q \in cx.prompts :
                         InScope(q, user) /\ \E l \in matching : l[1] = q.id}}]

---------------------------------------------------------------------------
(* The transaction handle of DatabaseContext *)

begin_transaction(cx) ==
  IF cx.err # OK THEN cx
  ELSE IF Faulty(cx) THEN Raise(Called(cx, "BEGIN"), OperationalError)
  ELSE Called(cx, "BEGIN")

\* the working copy becomes the committed storage
commit_transaction(cx) ==
  IF cx.err # OK THEN cx
  ELSE IF Faulty(cx) THEN Raise(Called(cx, "COMMIT"), OperationalError)
  ELSE Called(cx, "COMMIT")

\* the working copy is dropped: storage is what was committed, db
rollback_transaction(db, cx) ==
  [Called(cx, "ROLLBACK") EXCEPT
     !.prompts = db.prompts, !.tags = db.tags,
     !.prompt_tags = db.prompt_tags, !.next_id = db.next_id]

---------------------------------------------------------------------------
(* PromptService *)

\* PromptCreate(**fields): tags defaults to []
PromptCreate(raw) ==
  [content |-> raw.content, display_name |-> raw.display_name,
   author |-> IF "author" \in DOMAIN raw THEN raw.author ELSE NULL,
   tags |-> IF "tags" \in DOMAIN raw THEN raw.tags ELSE Some(<<>>)]

\* PromptCreate(**fields) raises no ValidationError: content and display_name
\* are required strings
ValidCreate(raw) == "content" \in DOMAIN raw /\ "display_name" \in DOMAIN raw

\* PromptUpdate(**fields): content and display_name default to None, tags to []
PromptUpdate(raw) ==
  [content |-> IF "content" \in DOMAIN raw THEN raw.content ELSE NULL,
   display_name |-> IF "display_name" \in DOMAIN raw THEN raw.display_name ELSE NULL,
   tags |-> IF "tags" \in DOMAIN raw THEN raw.tags ELSE Some(<<>>)]

\* except clauses of a write that leave the transaction's writes in place
ExceptWriteKeep(db, cx) ==
  LET r == [cx EXCEPT !.ret = NULL]
  IN IF IsPromptException(cx.err) THEN r ELSE Raise(r, PromptException)

\* except clauses of a write that roll back for a PromptException only
ExceptWriteKnownOnly(db, cx) ==
  IF IsPromptException(cx.err)
  THEN [rollback_transaction(db, cx) EXCEPT !.ret = NULL]
  ELSE Raise([cx EXCEPT !.ret = NULL], PromptException)

\* except clauses of a write that roll back and raise whatever was caught
ExceptWriteReraise(db, cx) ==
  [rollback_transaction(db, cx) EXCEPT !.ret = NULL]

\* the except clauses of a write: roll back, then raise the PromptException
\* itself, or PromptException for any other exception
ExceptWrite(db, cx) ==
  LET r == [rollback_transaction(db, cx) EXCEPT !.ret = NULL]
  IN IF IsPromptException(cx.err) THEN r ELSE Raise(r, PromptException)

\* except clauses of a read that roll back like those of a write
ExceptReadRollback(cx) ==
  LET r == [Called(cx, "ROLLBACK") EXCEPT !.ret = NULL]
  IN IF IsPromptException(cx.err) THEN r ELSE Raise(r, PromptException)

\* the except clauses of a read: no transaction call
ExceptRead(cx) ==
  LET r == [cx EXCEPT !.ret = NULL]
  IN IF IsPromptException(cx.err) THEN r ELSE Raise(r, PromptException)

\* a ValidationError is raised as ConstraintViolationError before the
\* database context is entered
service_create_prompt(db, prompt, author, fault) ==
  IF ~ ValidCreate(prompt)
  THEN [Raise(Context(db, fault), ConstraintViolationError) EXCEPT !.ret = NULL]
  ELSE LET c == commit_transaction(
                  create_prompt(begin_transaction(Context(db, fault)),
                                PromptCreate(prompt), author))
       IN IF c.err = OK THEN c ELSE ExceptWrite(db, c)

service_update_prompt(db, guid, prompt, user, fault) ==
  LET c == commit_transaction(
             update_prompt(begin_transaction(Context(db, fault)),
                                guid, PromptUpdate(prompt), user))
  IN IF c.err = OK THEN c ELSE ExceptWrite(db, c)

service_delete_prompt(db, guid, user, fault) ==
  LET c == commit_transaction(
             delete_prompt(begin_transaction(Context(db, fault)), guid, user))
  IN IF c.err = OK THEN c ELSE ExceptWrite(db, c)

service_add_tag_to_prompt(db, guid, tag, user, fault) ==
  LET c == commit_transaction(
             add_tag_to_prompt(begin_transaction(Context(db, fault)), guid, tag, user))
  IN IF c.err = OK THEN c ELSE ExceptWrite(db, c)

service_remove_tag_from_prompt(db, guid, tag, user, fault) ==
  LET c == commit_transaction(
             remove_tag_from_prompt(begin_transaction(Context(db, fault)),
                                    guid, tag, user))
  IN IF c.err = OK THEN c ELSE ExceptWrite(db, c)

service_get_prompt(db, guid, user, fault) ==
  LET c == get_prompt(Context(db, fault), guid, user)
  IN IF c.err = OK THEN c ELSE ExceptRead(c)

service_get_prompt_by_name(db, name, user, fault, first) ==
  LET c == get_prompt_by_name(Context(db, fault), name, user, first)
  IN IF c.err = OK THEN c ELSE ExceptRead(c)

service_list_prompts(db, user, fault) ==
  LET c == list_prompts(Context(db, fault), user)
  IN IF c.err = OK THEN c ELSE ExceptRead(c)

\* tags.split(','): never empty, so "No tags provided." is never raised
service_list_prompts_by_tags(db, tagstr, user, fault) ==
  LET tags_list == split(tagstr)
      c0 == Context(db, fault)
      c == IF tags_list = <<>> THEN Raise(c0, DataValidationError)
           ELSE list_prompts_by_tags(c0, tags_list, user)
  IN IF c.err = OK THEN c ELSE ExceptRead(c)

---------------------------------------------------------------------------
(* The state machine.  A caller issues one service call at a time (Call);   *)
(* the service handles it, one action per operation; the caller takes the   *)
(* response (Return).  While a response is held, `reply` keeps it together *)
(* with the storage as it was committed before the call.                    *)

DB == [prompts |-> prompts, tags |-> tags, prompt_tags |-> prompt_tags,
       next_id |-> next_id]

NoCall == [op |-> "none"]
NoReply == [err |-> "none"]

\* the sessions that run a write transaction one statement at a time
Sessions == {1, 2}
NoTxn == [state |-> "none"]

\* the inputs of create: with tags left out, with a tag list, with tags null,
\* with an author, and without content
CreateInputs(C, N, T) ==
  {[content |-> c, display_name |-> n] : c \in C, n \in N}
  \cup {[content |-> c, display_name |-> n, author |-> a] :
          c \in C, n \in N, a \in Usernames}
  \cup {[display_name |-> n] : n \in N}
  \cup {[content |-> c, display_name |-> n, tags |-> Some(l)] :
          c \in C, n \in N, l \in ListsUpTo(T, MaxTagList) \ {<<>>}}
  \cup {[content |-> c, display_name |-> n, tags |-> None] : c \in C, n \in N}

\* the inputs of update: any subset of the three fields, tags a list or null
UpdateInputs(C, N, T) ==
  LET scalars == {<<>>} \cup {[content |-> c] : c \in C}
                        \cup {[display_name |-> n] : n \in N}
                        \cup {[content |-> c, display_name |-> n] : c \in C, n \in N}
      taglists == {<<>>, [tags |-> None]}
                  \cup {[tags |-> Some(l)] : l \in ListsUpTo(T, MaxTagList)}
  IN {s @@ t : s \in scalars, t \in taglists}

\* the service calls over the users U, contents C, names N, tags T, the
\* comma-separated tag strings S and the fault points F
Requests(U, C, N, T, S, F) ==
  {[op |-> "create", prompt |-> p, user |-> u, fault |-> f] :
      p \in CreateInputs(C, N, T), u \in U, f \in F}
  \cup {[op |-> "update", guid |-> g, prompt |-> p, user |-> u, fault |-> f] :
      g \in Guids, p \in UpdateInputs(C, N, T), u \in U, f \in F}
  \cup {[op |-> "delete", guid |-> g, user |-> u, fault |-> f] :
      g \in Guids, u \in U, f \in F}
  \cup {[op |-> "addTag", guid |-> g, tag |-> t, user |-> u, fault |-> f] :
      g \in Guids, t \in T, u \in U, f \in F}
  \cup {[op |-> "removeTag", guid |-> g, tag |-> t, user |-> u, fault |-> f] :
      g \in Guids, t \in T, u \in U, f \in F}
  \cup {[op |-> "get", guid |-> g, user |-> u, fault |-> f] :
      g \in Guids, u \in U, f \in F}
  \cup {[op |-> "getByName", name |-> n, user |-> u, fault |-> f] :
      n \in N, u \in U, f \in F}
  \cup {[op |-> "list", user |-> u, fault |-> f] : u \in U, f \in F}
  \cup {[op |-> "listByTags", tagstr |-> s, user |-> u, fault |-> f] :
      s \in S, u \in U, f \in F}

Init ==
  /\ prompts = {}
  /\ tags = {}
  /\ prompt_tags = {}
  /\ next_id = 1
  /\ pc = "idle"
  /\ call = NoCall
  /\ reply = NoReply
  /\ txn = [s \in Sessions |-> NoTxn]

\* a caller issues a call; creation stops at MaxPrompts prompts
Call(requests) ==
  /\ pc = "idle"
  /\ \E r \in requests :
       /\ r.op = "create" => next_id <= MaxPrompts
       /\ call' = r
  /\ pc' = "called"
  /\ UNCHANGED <<prompts, tags, prompt_tags, next_id, reply, txn>>

\* the handler's outcome r: the storage it leaves committed, and the response
Respond(r) ==
  /\ prompts' = r.prompts
  /\ tags' = r.tags
  /\ prompt_tags' = r.prompt_tags
  /\ next_id' = r.next_id
  /\ reply' = [err |-> r.err, ret |-> r.ret, log |-> r.log, pre |-> DB]
  /\ pc' = "returned"
  /\ UNCHANGED <<call, txn>>

Create ==
  /\ pc = "called" /\ call.op = "create"
  /\ \E r \in {service_create_prompt(DB, call.prompt, call.user, call.fault)} :
       Respond(r)

Update ==
  /\ pc = "called" /\ call.op = "update"
  /\ \E r \in {service_update_prompt(DB, call.guid, call.prompt, call.user, call.fault)} :
       Respond(r)

Delete ==
  /\ pc = "called" /\ call.op = "delete"
  /\ \E r \in {service_delete_prompt(DB, call.guid, call.user, call.fault)} :
       Respond(r)

AddTag ==
  /\ pc = "called" /\ call.op = "addTag"
  /\ \E r \in {service_add_tag_to_prompt(DB, call.guid, call.tag, call.user, call.fault)} :
       Respond(r)

RemoveTag ==
  /\ pc = "called" /\ call.op = "removeTag"
  /\ \E r \in {service_remove_tag_from_prompt(DB, call.guid, call.tag, call.user,
                                              call.fault)} :
       Respond(r)

Get ==
  /\ pc = "called" /\ call.op = "get"
  /\ \E r \in {service_get_prompt(DB, call.guid, call.user, call.fault)} :
       Respond(r)

GetByName ==
  /\ pc = "called" /\ call.op = "getByName"
  /\ \E first \in {0} \cup {p.id : p \in prompts} :
       \E r \in {service_get_prompt_by_name(DB, call.name, call.user, call.fault, first)} :
          Respond(r)

List ==
  /\ pc = "called" /\ call.op = "list"
  /\ \E r \in {service_list_prompts(DB, call.user, call.fault)} :
       Respond(r)

ListByTags ==
  /\ pc = "called" /\ call.op = "listByTags"
  /\ \E r \in {service_list_prompts_by_tags(DB, call.tagstr, call.user, call.fault)} :
       Respond(r)

\* the caller takes the response
Return ==
  /\ pc = "returned"
  /\ pc' = "idle"
  /\ call' = NoCall
  /\ reply' = NoReply
  /\ UNCHANGED <<prompts, tags, prompt_tags, next_id, txn>>

Handle ==
  \/ Create \/ Update \/ Delete \/ AddTag \/ RemoveTag
  \/ Get \/ GetByName \/ List \/ ListByTags

\* Three callers, public and private prompts, one tag, no storage fault
OwnerCalls ==
  Requests(Scopes, Contents, Names, {TagA}, {<<>>, TagA, <<"b">>}, {0})

CallOwner == Call(OwnerCalls)

Next == CallOwner \/ Handle \/ Return

Spec == Init /\ [][Next]_vars

\* Two callers, tags with and without a comma in them, no storage fault
TagCalls ==
  Requests({NULL, "alice"}, {"c1"}, Names, TagAlphabet,
           {<<>>, TagA, TagAB}, {0})

CallTags == Call(TagCalls)

NextTags == CallTags \/ Handle \/ Return

SpecTags == Init /\ [][NextTags]_vars

\* Two callers, two tags, and the tag strings that name one of them or both
FilterCalls ==
  Requests({NULL, "alice"}, {"c1"}, {"n1"}, {TagA, TagB}, {TagA, TagB, TagAB}, {0})

CallFilter == Call(FilterCalls)

NextFilter == CallFilter \/ Handle \/ Return

SpecFilter == Init /\ [][NextFilter]_vars

\* Two callers, one tag, and a storage call that fails: the fault falls on any
\* of the calls a request can make, or on none
MaxFault == 5 + 2 * MaxTagList

FaultCalls ==
  Requests({"alice", "bob"}, Contents, {"n1"}, {TagA}, {TagA}, 0..MaxFault)

CallFault == Call(FaultCalls)

NextFault == CallFault \/ Handle \/ Return

SpecFault == Init /\ [][NextFault]_vars

---------------------------------------------------------------------------
(* Concurrent updates.  A session runs the try body of update_prompt one    *)
(* storage call at a time, while other sessions and the caller above act    *)
(* between its calls.  The tables hold the committed storage: a session's   *)
(* own writes are its calls so far applied to the committed storage, which  *)
(* others do not see before its COMMIT.  A call that writes the prompt's    *)
(* row or its links waits while another open transaction has written them.  *)

\* the try body of PromptService.update_prompt for the request r, with the
\* fault on the given storage call
UpdateBody(db, r, fault) ==
  commit_transaction(update_prompt(begin_transaction(Context(db, fault)),
                                   r.guid, PromptUpdate(r.prompt), r.user))

\* the storage calls the try body makes, the last one being where it stops
Statements(db, r) == UpdateBody(db, r, r.fault).log

\* the session's view once the first n of its storage calls have returned
After(db, r, n) == UpdateBody(db, r, n + 1)

\* the storage calls that lock the prompt's row and links until the
\* transaction ends
RowLocking == {"UPDATE prompts", "DELETE prompt_tags", "INSERT prompt_tags"}

\* the update requests a session runs, all on the prompt created first: the
\* callers U, no fault or one of F
SessionUpdates(U, inputs, F) ==
  {[op |-> "update", guid |-> make_guid(1), prompt |-> p, user |-> u, fault |-> f] :
      p \in inputs, u \in U, f \in F}

\* the session's transaction is open and its COMMIT has not succeeded
Uncommitted(s) ==
  /\ txn[s].state = "open"
  /\ LET body == UpdateBody(txn[s].base, txn[s].req, txn[s].req.fault)
     IN txn[s].n < Len(body.log) \/ body.err # OK

\* session s enters update_prompt for an existing prompt.  Each session keeps
\* its last request with the storage it began on and, as peers, the sessions
\* whose last transaction was uncommitted at some time during its own.
TxnBegin(s, requests) ==
  /\ txn[s].state \in {"none", "done"}
  /\ \E r \in requests :
       /\ \E p \in prompts : p.guid = r.guid
       /\ txn' = [o \in Sessions |->
                   IF o = s
                   THEN [state |-> "open", req |-> r, n |-> 0, locked |-> FALSE,
                         base |-> DB,
                         peers |-> {q \in Sessions \ {s} : Uncommitted(q)}]
                   ELSE IF txn[o].state = "none" THEN txn[o]
                   ELSE IF Uncommitted(o)
                        THEN [txn[o] EXCEPT !.peers = @ \cup {s}]
                   ELSE [txn[o] EXCEPT !.peers = @ \ {s}]]
  /\ UNCHANGED <<prompts, tags, prompt_tags, next_id, pc, call, reply>>

\* session s makes its next storage call; a COMMIT that succeeds makes its
\* writes the committed storage and releases its lock
TxnStep(s) ==
  /\ txn[s].state = "open"
  /\ LET t == txn[s]
         body == UpdateBody(DB, t.req, t.req.fault)
         stmts == body.log
     IN /\ t.n < Len(stmts)
        /\ LET stmt == stmts[t.n + 1]
               succeeds == t.n + 1 < Len(stmts) \/ body.err = OK
           IN /\ stmt \in RowLocking =>
                   \A o \in Sessions \ {s} :
                      ~ (/\ txn[o].state = "open"
                         /\ txn[o].locked
                         /\ txn[o].req.guid = t.req.guid)
              /\ txn' = [txn EXCEPT ![s].n = @ + 1,
                                    ![s].locked = IF stmt = "COMMIT" THEN FALSE
                                                  ELSE @ \/ stmt \in RowLocking]
              /\ IF stmt = "COMMIT" /\ succeeds
                 THEN \E c \in {After(DB, t.req, t.n + 1)} :
                        /\ prompts' = c.prompts
                        /\ tags' = c.tags
                        /\ prompt_tags' = c.prompt_tags
                        /\ next_id' = c.next_id
                 ELSE UNCHANGED <<prompts, tags, prompt_tags, next_id>>
  /\ UNCHANGED <<pc, call, reply>>

\* update_prompt returns or raises, after the rollback of the except clauses
\* if the try body raised: the session's writes and lock are gone
TxnEnd(s) ==
  /\ txn[s].state = "open"
  /\ txn[s].n = Len(Statements(DB, txn[s].req))
  /\ txn' = [txn EXCEPT ![s].state = "done", ![s].locked = FALSE]
  /\ UNCHANGED <<prompts, tags, prompt_tags, next_id, pc, call, reply>>

\* One session replacing tags, with a storage call that fails or none, and a
\* caller that creates prompts and reads them
ReaderCalls ==
  {[op |-> "create", prompt |-> p, user |-> NULL, fault |-> 0] :
      p \in {[content |-> "c1", display_name |-> "n1"],
              [content |-> "c1", display_name |-> "n1", tags |-> Some(<<TagA>>)]}}
  \cup {[op |-> "get", guid |-> g, user |-> NULL, fault |-> 0] : g \in Guids}

\* the tag lists the session sets: empty, one tag, two tags, one tag twice
TagUpdates ==
  SessionUpdates({NULL},
                 {[tags |-> Some(l)] :
                    l \in {<<>>, <<TagA>>, <<TagB>>, <<TagA, TagB>>, <<TagB, TagB>>}},
                 0..MaxFault)

CallReader == Call(ReaderCalls)

BeginTagUpdate == TxnBegin(1, TagUpdates)

NextTxn ==
  \/ CallReader \/ Create \/ Get \/ Return
  \/ BeginTagUpdate \/ TxnStep(1) \/ TxnEnd(1)

SpecTxn == Init /\ [][NextTxn]_vars

\* Two sessions updating either content or display_name, with tags left out
\* or null, and a caller that creates prompts
ScalarUpdates ==
  SessionUpdates({NULL},
                 {p \in UpdateInputs({"c2"}, {"n2"}, {}) :
                     /\ Cardinality(DOMAIN p \ {"tags"}) = 1
                     /\ "tags" \in DOMAIN p => ~ p.tags.some},
                 {0})

CreateCalls == {r \in ReaderCalls : r.op = "create" /\ "tags" \notin DOMAIN r.prompt}

CallCreate == Call(CreateCalls)

NextRace ==
  \/ CallCreate \/ Create \/ Return
  \/ \E s \in Sessions : TxnBegin(s, ScalarUpdates) \/ TxnStep(s) \/ TxnEnd(s)

SpecRace == Init /\ [][NextRace]_vars

---------------------------------------------------------------------------
(* Properties.  Each is stated about the state in which a response is held: *)
(* `call` is the call, `reply` its response, reply.pre the storage before   *)
(* it and the tables the storage after it.                                  *)

Returned(op) == pc = "returned" /\ call.op = op

\* the tags linked to the prompt with this id
LinksOf(links, id) == {l[2] : l \in {k \in links : k[1] = id}}

\* the rows with this guid that the scope `user` owns
Owned(rows, guid, user) == {p \in rows : p.guid = guid /\ p.author = user}

\* C1 (read isolation): the author of a row is the scope it was created with
\* and never changes; get answers with the row of that guid exactly when the
\* row's author is the caller's scope (absent for absent, the same username
\* otherwise) and with RecordNotFoundError otherwise; list answers with
\* exactly the rows whose author is the caller's scope.
ReadIsolation ==
  pc = "returned" =>
    /\ \A p \in reply.pre.prompts : \A q \in prompts :
         q.guid = p.guid => q.author = p.author
    /\ (call.op = "create" /\ reply.err = OK) =>
         \E q \in prompts \ reply.pre.prompts :
            q.guid = reply.ret /\ q.author = call.user
    /\ call.op = "get" =>
         IF Owned(prompts, call.guid, call.user) # {}
         THEN /\ reply.err = OK
              /\ \E p \in Owned(prompts, call.guid, call.user) :
                   reply.ret.id = p.id /\ reply.ret.guid = p.guid
         ELSE reply.err = RecordNotFoundError /\ reply.ret = NULL
    /\ call.op = "list" =>
         /\ reply.err = OK
         /\ {r.id : r \in reply.ret} = {p.id : p \in {q \in prompts : q.author = call.user}}

\* a stored private prompt is asked for by another user, and by the public scope
ReadIsolationWitness ==
  /\ Returned("get")
  /\ call.user \in {NULL, "bob"}
  /\ \E p \in prompts : p.guid = call.guid /\ p.author = "alice"
  /\ reply.err = RecordNotFoundError

WriteOps == {"update", "delete", "addTag", "removeTag"}

\* the rows with this guid that the scope `user` does not own
Foreign(rows, guid, user) == {p \in rows : p.guid = guid /\ p.author # user}

\* C2 (write isolation): after update, delete, addTag or removeTag on the guid
\* of a prompt of another scope, that prompt's row (content, display_name
\* and the rest) and its tag links are what they were before the call,
\* whatever the fields of the update.
WriteIsolation ==
  (pc = "returned" /\ call.op \in WriteOps) =>
    \A p \in Foreign(reply.pre.prompts, call.guid, call.user) :
       /\ p \in prompts
       /\ LinksOf(prompt_tags, p.id) = LinksOf(reply.pre.prompt_tags, p.id)

\* an update with a scalar field and tags null, by a caller who does not own
\* the prompt, is committed
WriteIsolationBroken ==
  /\ Returned("update")
  /\ "tags" \in DOMAIN call.prompt /\ call.prompt.tags = None
  /\ reply.err = OK
  /\ \E p \in Foreign(reply.pre.prompts, call.guid, call.user) : p \notin prompts

\* C3 (partial update): after the owner's update that gives display_name only,
\* the call has succeeded, the prompt has the new display_name, and its
\* content and its tag links are what they were before the call.
PartialUpdate ==
  (/\ Returned("update")
   /\ DOMAIN call.prompt = {"display_name"}
   /\ Owned(reply.pre.prompts, call.guid, call.user) # {}) =>
    /\ reply.err = OK
    /\ \A p \in Owned(reply.pre.prompts, call.guid, call.user) :
         /\ [p EXCEPT !.display_name = call.prompt.display_name] \in prompts
         /\ LinksOf(prompt_tags, p.id) = LinksOf(reply.pre.prompt_tags, p.id)

\* the owner's update of display_name alone has removed the prompt's tag links
PartialUpdateBroken ==
  /\ Returned("update")
  /\ DOMAIN call.prompt = {"display_name"}
  /\ reply.err = OK
  /\ \E p \in Owned(reply.pre.prompts, call.guid, call.user) :
       /\ LinksOf(reply.pre.prompt_tags, p.id) # {}
       /\ LinksOf(prompt_tags, p.id) = {}

\* C4 (delete ownership enforcement): delete on the guid of a prompt of
\* another scope raises UnauthorizedError, and the prompts, the tags and the
\* tag links are what they were before the call.
DeleteOwnership ==
  (/\ Returned("delete")
   /\ Foreign(reply.pre.prompts, call.guid, call.user) # {}) =>
    /\ reply.err = UnauthorizedError
    /\ prompts = reply.pre.prompts
    /\ prompt_tags = reply.pre.prompt_tags
    /\ tags = reply.pre.tags

\* a caller has asked to delete a tagged prompt of another scope
DeleteOwnershipWitness ==
  /\ Returned("delete")
  /\ reply.err = UnauthorizedError
  /\ \E p \in Foreign(prompts, call.guid, call.user) :
       LinksOf(prompt_tags, p.id) # {}

\* C5 (cascade on delete): after the owner's successful delete no tag link
\* refers to the deleted prompt, and no tag has left the tag vocabulary.
DeleteCascade ==
  (Returned("delete") /\ reply.err = OK) =>
    /\ \A p \in Owned(reply.pre.prompts, call.guid, call.user) :
         /\ p \notin prompts
         /\ LinksOf(prompt_tags, p.id) = {}
    /\ reply.pre.tags \subseteq tags

\* the owner has deleted a tagged prompt and its tag links are still stored
DeleteCascadeBroken ==
  /\ Returned("delete")
  /\ reply.err = OK
  /\ \E p \in Owned(reply.pre.prompts, call.guid, call.user) :
       /\ p \notin prompts
       /\ LinksOf(reply.pre.prompt_tags, p.id) # {}
       /\ LinksOf(prompt_tags, p.id) = LinksOf(reply.pre.prompt_tags, p.id)

\* the response without the storage snapshot
Outcome(r) == [err |-> r.err, ret |-> r.ret, log |-> r.log]

\* C6 (not-found indistinguishability): get on the guid of a prompt of another
\* scope raises RecordNotFoundError, and its response and storage calls are
\* those of get on a guid no prompt has.
NotFoundIndistinguishable ==
  (/\ Returned("get")
   /\ Foreign(prompts, call.guid, call.user) # {}
   /\ Owned(prompts, call.guid, call.user) = {}) =>
    /\ reply.err = RecordNotFoundError
    /\ Outcome(reply) = Outcome(service_get_prompt(DB, make_guid(0), call.user, call.fault))
    /\ DB = reply.pre

\* a caller has asked for a stored prompt of another scope
NotFoundWitness ==
  /\ Returned("get")
  /\ call.user = "alice"
  /\ \E p \in prompts : p.guid = call.guid /\ p.author \in {NULL, "bob"}
  /\ reply.ret = NULL

\* C7 (tag replace): after the owner's update that gives a tag list T, the
\* call has succeeded and the prompt's tags are exactly the elements of T,
\* whatever its tags were before.
TagReplace ==
  (/\ Returned("update")
   /\ "tags" \in DOMAIN call.prompt /\ call.prompt.tags.some
   /\ Owned(reply.pre.prompts, call.guid, call.user) # {}) =>
    /\ reply.err = OK
    /\ \A p \in Owned(prompts, call.guid, call.user) :
         LinksOf(prompt_tags, p.id) = Range(call.prompt.tags.v)

\* the owner's update with a list that names a tag twice has failed and left
\* the prompt without that tag
TagReplaceBroken ==
  /\ Returned("update")
  /\ "tags" \in DOMAIN call.prompt /\ call.prompt.tags = Some(<<TagA, TagA>>)
  /\ reply.err = PromptException
  /\ \E p \in Owned(prompts, call.guid, call.user) :
       TagA \notin LinksOf(prompt_tags, p.id)

\* the tag list a create is given: none when tags is left out
GivenTags(raw) ==
  IF "tags" \in DOMAIN raw /\ raw.tags.some THEN Range(raw.tags.v) ELSE {}

\* C8 (create/get round trip): after a successful create, get by the same
\* caller on the returned guid succeeds with the content and display_name
\* given and with the tags given, compared as sets.
CreateGetRoundTrip ==
  (Returned("create") /\ reply.err = OK) =>
    LET g == service_get_prompt(DB, reply.ret, call.user, 0)
    IN /\ g.err = OK
       /\ g.ret.guid = reply.ret
       /\ g.ret.content = call.prompt.content
       /\ g.ret.display_name = call.prompt.display_name
       /\ Range(g.ret.tags) = GivenTags(call.prompt)

\* a prompt created with the one tag "a,b" is read back with the tags "a", "b"
RoundTripBroken ==
  /\ Returned("create")
  /\ reply.err = OK
  /\ GivenTags(call.prompt) = {TagAB}
  /\ Range(service_get_prompt(DB, reply.ret, call.user, 0).ret.tags) = {<<"a">>, <<"b">>}

\* C9 (addTag idempotence): addTag by the owner with a tag the prompt already
\* has raises no error and leaves the prompt's tag links as they were, and get
\* then lists that tag exactly once.
AddTagIdempotent ==
  (/\ Returned("addTag")
   /\ \E p \in Owned(reply.pre.prompts, call.guid, call.user) :
        call.tag \in LinksOf(reply.pre.prompt_tags, p.id)) =>
    /\ reply.err = OK
    /\ prompt_tags = reply.pre.prompt_tags
    /\ Count(service_get_prompt(DB, call.guid, call.user, 0).ret.tags, call.tag) = 1

\* the owner's second addTag of the same tag has raised the generic error
AddTagTwiceBroken ==
  /\ Returned("addTag")
  /\ \E p \in Owned(reply.pre.prompts, call.guid, call.user) :
       call.tag \in LinksOf(reply.pre.prompt_tags, p.id)
  /\ reply.err = PromptException
  /\ "INSERT prompt_tags" \in Range(reply.log)

\* C10 (transactional atomicity): a write that has raised, at any storage
\* call and for any reason, leaves the prompts, the tags and the tag links
\* as they were before it began.
Atomicity ==
  (/\ pc = "returned"
   /\ call.op \in WriteOps \cup {"create"}
   /\ reply.err # OK) =>
    DB = reply.pre

\* an update whose first write went through has failed at a later storage call
AtomicityWitness ==
  /\ Returned("update")
  /\ call.fault > 2
  /\ reply.err = PromptException
  /\ Len(reply.log) = call.fault + 1
  /\ reply.log[2] = "UPDATE prompts"
  /\ "content" \in DOMAIN call.prompt
  /\ \E p \in prompts : p.guid = call.guid /\ p.content # call.prompt.content

\* the statements that only open or close the transaction
TransactionCalls == {"BEGIN", "COMMIT", "ROLLBACK"}

\* the input of an update gives a scalar field; gives a tag list
SuppliesScalar(raw) == "content" \in DOMAIN raw \/ "display_name" \in DOMAIN raw
SuppliesTags(raw) == "tags" \in DOMAIN raw /\ raw.tags.some

\* C11 (empty update rejection): an update whose input gives no content, no
\* display_name and no tags (tags left out, or null) fails with
\* DataValidationError and runs no storage statement.
EmptyUpdateRejected ==
  (/\ Returned("update")
   /\ ~ SuppliesScalar(call.prompt)
   /\ ~ SuppliesTags(call.prompt)) =>
    /\ reply.err = DataValidationError
    /\ Range(reply.log) \subseteq TransactionCalls

\* the update with no field at all has succeeded and removed the prompt's tags
EmptyUpdateBroken ==
  /\ Returned("update")
  /\ DOMAIN call.prompt = {}
  /\ reply.err = OK
  /\ "DELETE prompt_tags" \in Range(reply.log)
  /\ \E p \in Owned(prompts, call.guid, call.user) :
       LinksOf(reply.pre.prompt_tags, p.id) # {} /\ LinksOf(prompt_tags, p.id) = {}

ReadOps == {"get", "getByName", "list", "listByTags"}

\* C12 (empty-filter rejection): listByTags with the empty comma-separated
\* string raises DataValidationError and returns no rows, for every scope, and
\* so does the repository's list_prompts_by_tags with the empty list.
EmptyFilterRejected ==
  (Returned("listByTags") /\ call.tagstr = <<>>) =>
    /\ reply.err = DataValidationError
    /\ reply.ret = NULL
    /\ list_prompts_by_tags(Context(DB, 0), <<>>, call.user).err = DataValidationError

\* listByTags with the empty string has answered with an empty list and no
\* error, having asked storage for the tag ""
EmptyFilterBroken ==
  /\ Returned("listByTags")
  /\ call.tagstr = <<>>
  /\ split(call.tagstr) = <<<<>>>>
  /\ reply.err = OK
  /\ reply.ret = {}
  /\ reply.log = <<"SELECT prompts">>
  /\ prompts # {}

\* the try body of the service operation of request r on storage db, before
\* any except clause: what the repository and the transaction calls raise;
\* it is not entered for a create input that fails validation
Attempt(r, db) ==
  LET cx == Context(db, r.fault)
  IN CASE r.op = "create" /\ ~ ValidCreate(r.prompt) -> cx
       [] r.op = "create" /\ ValidCreate(r.prompt) ->
            commit_transaction(create_prompt(begin_transaction(cx),
                                             PromptCreate(r.prompt), r.user))
       [] r.op = "update" ->
            commit_transaction(update_prompt(begin_transaction(cx), r.guid,
                                             PromptUpdate(r.prompt), r.user))
       [] r.op = "delete" ->
            commit_transaction(delete_prompt(begin_transaction(cx), r.guid, r.user))
       [] r.op = "addTag" ->
            commit_transaction(add_tag_to_prompt(begin_transaction(cx), r.guid,
                                                 r.tag, r.user))
       [] r.op = "removeTag" ->
            commit_transaction(remove_tag_from_prompt(begin_transaction(cx), r.guid,
                                                      r.tag, r.user))
       [] r.op = "get" -> get_prompt(cx, r.guid, r.user)
       [] r.op = "getByName" -> get_prompt_by_name(cx, r.name, r.user, 0)
       [] r.op = "list" -> list_prompts(cx, r.user)
       [] r.op = "listByTags" -> list_prompts_by_tags(cx, split(r.tagstr), r.user)

\* the error the caller gets for the error e raised in the try body
Surfaced(e) == IF IsPromptException(e) THEN e ELSE PromptException

\* C13 as stated (uniform failure surface): in every service operation a
\* PromptException raised in the operation reaches the caller as itself, any
\* other exception as the generic PromptException, in both cases after a
\* rollback.
FailureSurfaceAfterRollback ==
  (pc = "returned" /\ Attempt(call, reply.pre).err # OK) =>
    /\ reply.err = Surfaced(Attempt(call, reply.pre).err)
    /\ reply.log[Len(reply.log)] = "ROLLBACK"

\* C13, amended: in every service operation a PromptException raised in the
\* operation reaches the caller as itself and any other exception as the
\* generic PromptException; a write has rolled back before that and left
\* storage as it was, a read makes no rollback call.
FailureSurface ==
  (pc = "returned" /\ Attempt(call, reply.pre).err # OK) =>
    /\ reply.err = Surfaced(Attempt(call, reply.pre).err)
    /\ reply.ret = NULL
    /\ IF call.op \in ReadOps
       THEN "ROLLBACK" \notin Range(reply.log)
       ELSE reply.log[Len(reply.log)] = "ROLLBACK" /\ DB = reply.pre

\* a delete whose DELETE statement failed in the driver has reached the caller
\* as the generic error
FailureSurfaceWitness ==
  /\ Returned("delete")
  /\ Attempt(call, reply.pre).err = OperationalError
  /\ reply.log = <<"BEGIN", "SELECT author", "DELETE prompts", "ROLLBACK">>
  /\ reply.err = PromptException

\* C14 (read-only operations): get, getByName, list and listByTags make no
\* begin, commit or rollback call, whether they succeed or fail, and leave
\* the prompts, the tag vocabulary and the tag links as they were.
ReadOnly ==
  (pc = "returned" /\ call.op \in ReadOps) =>
    /\ Range(reply.log) \cap TransactionCalls = {}
    /\ DB = reply.pre

\* a read of stored prompts has failed in the driver
ReadOnlyWitness ==
  /\ pc = "returned"
  /\ call.op \in ReadOps
  /\ call.fault = 1
  /\ reply.err = PromptException
  /\ reply.log = <<"SELECT prompts">>
  /\ prompts # {}

\* C15 (the vocabulary never shrinks): no step takes a tag out of the
\* committed tag vocabulary -- not create, update, addTag, removeTag or
\* delete, committed or rolled back.
VocabularyNeverShrinks == [][tags \subseteq tags']_vars

\* removeTag has been committed and its tag, linked to no prompt any more, is
\* still in the vocabulary
VocabularyWitness ==
  /\ Returned("removeTag")
  /\ reply.err = OK
  /\ \E l \in reply.pre.prompt_tags : l[2] = call.tag
  /\ \A l \in prompt_tags : l[2] # call.tag
  /\ call.tag \in tags

\* the statements that change a prompt row or a tag link
MutatingStatements ==
  {"INSERT prompts", "UPDATE prompts", "DELETE prompts",
   "INSERT prompt_tags", "DELETE prompt_tags"}

\* C16 (UnauthorizedError prior to mutation): an update that gives scalar
\* fields and tags, or a delete, on a prompt of another scope raises
\* UnauthorizedError before the operation has run any statement that changes
\* a prompt row or a tag link.
UnauthorizedBeforeMutation ==
  (/\ pc = "returned"
   /\ \/ call.op = "delete"
      \/ call.op = "update" /\ SuppliesScalar(call.prompt) /\ SuppliesTags(call.prompt)
   /\ Foreign(reply.pre.prompts, call.guid, call.user) # {}) =>
    /\ reply.err = UnauthorizedError
    /\ Range(reply.log) \cap MutatingStatements = {}

\* an update of a prompt of another scope has run its UPDATE statement before
\* the ownership check raised
UnauthorizedAfterUpdate ==
  /\ Returned("update")
  /\ Foreign(reply.pre.prompts, call.guid, call.user) # {}
  /\ reply.err = UnauthorizedError
  /\ reply.log = <<"BEGIN", "UPDATE prompts", "SELECT author", "ROLLBACK">>

\* C17 (addTag without a matching prompt): when no prompt has the guid in
\* the caller's scope, addTag raises no error, inserts no tag link, leaves
\* every prompt row as it was, and still puts the tag in the vocabulary.
AddTagNoMatch ==
  (/\ Returned("addTag")
   /\ Owned(reply.pre.prompts, call.guid, call.user) = {}) =>
    /\ reply.err = OK
    /\ prompt_tags = reply.pre.prompt_tags
    /\ prompts = reply.pre.prompts
    /\ tags = reply.pre.tags \cup {call.tag}

\* addTag on the guid of a prompt of another scope has added a new tag to the
\* vocabulary and no link
AddTagNoMatchWitness ==
  /\ Returned("addTag")
  /\ Foreign(prompts, call.guid, call.user) # {}
  /\ call.tag \notin reply.pre.tags
  /\ call.tag \in tags
  /\ prompt_tags = {}
  /\ reply.log = <<"BEGIN", "INSERT tags", "INSERT prompt_tags", "COMMIT">>

\* the links removeTag is to delete: (prompt, tag) for the prompt with the
\* guid in the caller's scope
LinkToRemove(rows, guid, tag, user) == {<<p.id, tag>> : p \in Owned(rows, guid, user)}

\* C18 (removeTag is exact): removeTag completes without error, deletes the
\* link of the tag to the prompt with the guid in the caller's scope when that
\* link exists, and leaves every other tag link, every prompt row and the
\* vocabulary as they were.
RemoveTagExact ==
  Returned("removeTag") =>
    /\ reply.err = OK
    /\ prompt_tags = reply.pre.prompt_tags
                       \ LinkToRemove(reply.pre.prompts, call.guid, call.tag, call.user)
    /\ prompts = reply.pre.prompts
    /\ tags = reply.pre.tags

\* removeTag has deleted one of the two tag links of a prompt
RemoveTagWitness ==
  /\ Returned("removeTag")
  /\ \E p \in Owned(prompts, call.guid, call.user) :
       /\ Cardinality(LinksOf(reply.pre.prompt_tags, p.id)) = 2
       /\ call.tag \in LinksOf(reply.pre.prompt_tags, p.id)
       /\ LinksOf(prompt_tags, p.id) = LinksOf(reply.pre.prompt_tags, p.id) \ {call.tag}

\* the prompts in the scope `user` with a tag link to a tag of the list
Matching(user, tags_list) ==
  {p \in prompts : p.author = user /\ LinksOf(prompt_tags, p.id) \cap Range(tags_list) # {}}

\* C19 (listByTags is exact): listByTags with a non-empty tag string returns
\* the prompts of the caller's scope that have a link to at least one tag of
\* the list, each once, and no other prompt.
ListByTagsExact ==
  (Returned("listByTags") /\ call.tagstr # <<>>) =>
    /\ reply.err = OK
    /\ {r.id : r \in reply.ret} = {p.id : p \in Matching(call.user, split(call.tagstr))}
    /\ Cardinality(reply.ret) = Cardinality(Matching(call.user, split(call.tagstr)))

\* listByTags for "a,b" has returned once the prompt that has both tags
ListByTagsWitness ==
  /\ Returned("listByTags")
  /\ call.tagstr = TagAB
  /\ Cardinality(reply.ret) = 1
  /\ \E p \in Owned(prompts, make_guid(1), call.user) :
       LinksOf(prompt_tags, p.id) = {TagA, TagB}

\* the prompts with this display_name that the scope `user` owns
Named(rows, name, user) == {p \in rows : p.display_name = name /\ p.author = user}

\* C20 (getByName): getByName returns a prompt that has the display_name and
\* is in the caller's scope whenever there is one, whichever of several the
\* storage puts first, and raises RecordNotFoundError otherwise -- also when
\* prompts of other scopes have that display_name.
GetByNameScoped ==
  Returned("getByName") =>
    IF Named(prompts, call.name, call.user) # {}
    THEN /\ reply.err = OK
         /\ \E p \in Named(prompts, call.name, call.user) :
              reply.ret.id = p.id /\ reply.ret.display_name = call.name
    ELSE reply.err = RecordNotFoundError /\ reply.ret = NULL

\* the only prompt with the display_name asked for belongs to another scope
GetByNameWitness ==
  /\ Returned("getByName")
  /\ \E p \in prompts : p.display_name = call.name /\ p.author # call.user
  /\ Named(prompts, call.name, call.user) = {}
  /\ reply.err = RecordNotFoundError


\* the session's transaction replaces the tags of a prompt
ReplacesTags(s) ==
  /\ txn[s].state \in {"open", "done"}
  /\ PromptUpdate(txn[s].req.prompt).tags.some

\* the id of the prompt the session updates, in the storage it began on
TxnPromptId(s) ==
  (CHOOSE p \in txn[s].base.prompts : p.guid = txn[s].req.guid).id

\* the session's try body has run to its end and its COMMIT succeeded
HasCommitted(s) ==
  LET body == UpdateBody(txn[s].base, txn[s].req, txn[s].req.fault)
  IN txn[s].n = Len(body.log) /\ body.err = OK

\* C21 (tag replacement is atomic for other transactions): while an update
\* replaces a prompt's tags, the committed storage links the prompt to the
\* tags it had when the update began, until the update has committed, and to
\* exactly the new tags from then on; a get of the prompt answered on that
\* committed storage returns what it would return on the storage before or
\* after the update, never an empty or partial tag set in between, and an
\* update that fails midway leaves the old tags.
TagReplaceIsolated ==
  \A s \in Sessions :
    ReplacesTags(s) =>
      LET t == txn[s]
          old == LinksOf(t.base.prompt_tags, TxnPromptId(s))
          new == Range(PromptUpdate(t.req.prompt).tags.v)
          done == UpdateBody(t.base, t.req, t.req.fault)
      IN /\ LinksOf(prompt_tags, TxnPromptId(s)) = IF HasCommitted(s) THEN new ELSE old
         /\ (Returned("get") /\ call.guid = t.req.guid /\ reply.pre = DB) =>
              reply.ret \in {service_get_prompt(t.base, call.guid, call.user, 0).ret,
                             service_get_prompt(done, call.guid, call.user, 0).ret}

\* a get answered after the update removed the old links and before it
\* linked the new tag returns the old tag
TagReplaceWitness ==
  /\ ReplacesTags(1)
  /\ PromptUpdate(txn[1].req.prompt).tags = Some(<<TagB>>)
  /\ txn[1].n = 3
  /\ Statements(DB, txn[1].req)[3] = "DELETE prompt_tags"
  /\ Returned("get")
  /\ call.guid = txn[1].req.guid
  /\ reply.pre = DB
  /\ reply.err = OK
  /\ reply.ret.tags = <<TagA>>
  /\ LinksOf(prompt_tags, TxnPromptId(1)) = {TagA}

\* the session's last transaction supplied this content and display_name and
\* no tag list, and has committed
CommittedScalars(s, content, display_name) ==
  /\ txn[s].state \in {"open", "done"}
  /\ ~ SuppliesTags(txn[s].req.prompt)
  /\ PromptUpdate(txn[s].req.prompt).content = content
  /\ PromptUpdate(txn[s].req.prompt).display_name = display_name
  /\ HasCommitted(s)

\* C27 (concurrent updates of disjoint fields): when two concurrent updates
\* of the same guid, one supplying only content and the other only
\* display_name, neither a tag list, have both committed, in whichever order
\* their storage calls and commits fell, the prompt holds the new content and
\* the new display_name.
DisjointUpdatesKept ==
  \A s \in Sessions : \A o \in Sessions \ {s} :
    \A c \in Contents : \A n \in Names :
      (/\ CommittedScalars(s, c, NULL)
       /\ CommittedScalars(o, NULL, n)
       /\ txn[s].req.guid = txn[o].req.guid
       /\ o \in txn[s].peers) =>
        \A p \in prompts :
          p.guid = txn[s].req.guid => p.content = c /\ p.display_name = n

\* both updates began on content c1 and display_name n1, the one that set the
\* display_name committed first, the other then committed its content, and
\* the prompt holds both
DisjointUpdatesWitness ==
  /\ CommittedScalars(1, "c2", NULL)
  /\ CommittedScalars(2, NULL, "n2")
  /\ txn[1].req.guid = txn[2].req.guid
  /\ 2 \in txn[1].peers /\ 1 \in txn[2].peers
  /\ txn[1].base = txn[2].base
  /\ txn[2].state = "done" /\ txn[1].state = "open"
  /\ \A p \in txn[1].base.prompts : p.content = "c1" /\ p.display_name = "n1"
  /\ \E p \in prompts : /\ p.guid = txn[1].req.guid
                        /\ p.content = "c2"
                        /\ p.display_name = "n2"

\* C22 (guid and author are immutable): whatever the call and its outcome,
\* every prompt that was stored before it and is stored after it has the guid
\* and the author it had; a prompt stored by a successful create has the guid
\* returned and the creating caller's username (or no author) as its author,
\* whatever author the create input carried.
GuidAuthorImmutable ==
  pc = "returned" =>
    /\ \A p \in reply.pre.prompts : \A q \in prompts :
         q.id = p.id => q.guid = p.guid /\ q.author = p.author
    /\ (call.op = "create" /\ reply.err = OK) =>
         \A q \in prompts :
           q.id \notin {p.id : p \in reply.pre.prompts} =>
             q.guid = reply.ret /\ q.author = call.user

\* a create by alice whose input carried the author bob has stored alice
GuidAuthorWitness ==
  /\ Returned("create")
  /\ reply.err = OK
  /\ call.user = "alice"
  /\ "author" \in DOMAIN call.prompt
  /\ call.prompt.author = "bob"
  /\ \E q \in prompts : q.guid = reply.ret /\ q.author = "alice"


\* C23 (link relation is well-formed): in every committed state every link
\* joins a prompt that is stored to a tag of the vocabulary, and no
\* (prompt, tag) pair is linked twice.
LinksWellFormed ==
  /\ \A l \in prompt_tags :
       /\ l[2] \in tags
       /\ \E p \in prompts : p.id = l[1]
  /\ \A k \in prompt_tags : \A l \in prompt_tags :
       (k[1] = l[1] /\ k[2] = l[2]) => k = l

\* a delete by the owner has succeeded and left the links of the deleted
\* prompt in the committed storage
LinksOrphaned ==
  /\ Returned("delete")
  /\ reply.err = OK
  /\ \E p \in reply.pre.prompts :
       /\ p.guid = call.guid
       /\ p.author = call.user
       /\ p \notin prompts
       /\ LinksOf(prompt_tags, p.id) # {}
       /\ LinksOf(prompt_tags, p.id) = LinksOf(reply.pre.prompt_tags, p.id)
       /\ LinksOf(prompt_tags, p.id) \subseteq tags

\* C24 (ownership check on a missing row): a delete, or an update that
\* carries a tag list (given, or left to its default), on a guid that matches
\* no row stops in the ownership check, right after its SELECT of the author,
\* with an error that is no PromptException; the caller gets the generic
\* PromptException, neither RecordNotFoundError nor UnauthorizedError, and
\* the storage is what it was before the call.
MissingRowGeneric ==
  (/\ pc = "returned"
   /\ \/ call.op = "delete"
      \/ call.op = "update" /\ PromptUpdate(call.prompt).tags.some
   /\ \A p \in reply.pre.prompts : p.guid # call.guid) =>
    /\ Attempt(call, reply.pre).err = TypeError
    /\ Attempt(call, reply.pre).log[Len(Attempt(call, reply.pre).log)] = "SELECT author"
    /\ reply.err = PromptException
    /\ DB = reply.pre

\* a delete of a guid whose prompt was deleted before has reached the caller
\* as the generic error
MissingRowWitness ==
  /\ Returned("delete")
  /\ prompts = {}
  /\ next_id = 2
  /\ call.guid = make_guid(1)
  /\ reply.err = PromptException
  /\ reply.log = <<"BEGIN", "SELECT author", "ROLLBACK">>

\* the transaction calls of a write: begin first and once; commit last and no
\* rollback when the operation returned, rollback last and once when it raised
ProtocolKept ==
  /\ Len(reply.log) >= 2
  /\ reply.log[1] = "BEGIN"
  /\ Count(reply.log, "BEGIN") = 1
  /\ IF reply.err = OK
     THEN /\ reply.log[Len(reply.log)] = "COMMIT"
          /\ Count(reply.log, "COMMIT") = 1
          /\ Count(reply.log, "ROLLBACK") = 0
     ELSE /\ reply.log[Len(reply.log)] = "ROLLBACK"
          /\ Count(reply.log, "ROLLBACK") = 1

\* C25 as stated (write-transaction protocol): every write operation calls
\* begin exactly once, before its first repository statement; it returns only
\* after a commit that succeeded and without a rollback; on every raising path
\* it calls rollback exactly once before the error reaches the caller.
WriteProtocolAlways ==
  (pc = "returned" /\ call.op \in WriteOps \cup {"create"}) => ProtocolKept

\* C25, amended: a write operation whose input passes validation keeps that
\* protocol, a failed commit or begin included; a create whose input fails
\* validation raises ConstraintViolationError with no transaction call and no
\* repository statement at all.
WriteProtocol ==
  (pc = "returned" /\ call.op \in WriteOps \cup {"create"}) =>
    IF call.op = "create" /\ ~ ValidCreate(call.prompt)
    THEN reply.err = ConstraintViolationError /\ reply.log = <<>> /\ DB = reply.pre
    ELSE ProtocolKept

\* an update whose commit failed has rolled back once, after the commit
WriteProtocolWitness ==
  /\ Returned("update")
  /\ reply.err = PromptException
  /\ Len(reply.log) >= 4
  /\ reply.log[Len(reply.log) - 1] = "COMMIT"
  /\ reply.log[Len(reply.log)] = "ROLLBACK"
  /\ Count(reply.log, "ROLLBACK") = 1
  /\ call.fault = Len(reply.log) - 1

\* C26 (tags shown by listByTags): each prompt that listByTags returns carries
\* in its tags field exactly those of its linked tags that are in the
\* requested list, not its other tags, which get on the same prompt returns.
ListByTagsShowsRequested ==
  (Returned("listByTags") /\ call.tagstr # <<>> /\ reply.err = OK) =>
    \A r \in reply.ret :
      Range(r.tags) = LinksOf(prompt_tags, r.id) \cap Range(split(call.tagstr))

\* listByTags for "a" has returned a prompt tagged a and b with the tags [a],
\* and get returns that prompt with both tags
ListByTagsShowsWitness ==
  /\ Returned("listByTags")
  /\ call.tagstr = TagA
  /\ \E r \in reply.ret :
       /\ r.tags = <<TagA>>
       /\ LinksOf(prompt_tags, r.id) = {TagA, TagB}
       /\ service_get_prompt(DB, r.guid, call.user, 0).err = OK
       /\ Range(service_get_prompt(DB, r.guid, call.user, 0).ret.tags) = {TagA, TagB}
=============================================================================
